---- MODULE Spec2Model ----
(***************************************************************************)
(* Model of scenic/projects/owl_vit/models.py: the OWL-ViT text-query      *)
(* detection module (TextZeroShotDetectionModule).                         *)
(*                                                                         *)
(* Three groups of operations are modelled, each with its own              *)
(* specification over the shared variables:                                *)
(*   SpecLoad    - load_variables and load against a checkpoint store      *)
(*   SpecForward - __call__ (the forward pass): shapes and the query mask  *)
(*   SpecBox     - box_predictor in float32 arithmetic                     *)
(***************************************************************************)
EXTENDS Integers, Sequences, FiniteSets, TLC

(***************************************************************************)
(* Bounds of the model.                                                    *)
(***************************************************************************)
\* leaf values of a parameter tree are 1..MaxVal
MaxVal == 2
\* a batch of text queries [b, q, l] holds at most MaxTokens tokens
MaxTokens == 4
\* token ids are the int32 values -TokMax, 0 and TokMax
TokMax == 1
\* feature-map height and width, and feature / embedding widths
MaxGrid == 2
MaxD == 2
\* box_predictor: patches per image; the box head's raw outputs are
\* -RawMax, 0 or RawMax; the location bias (the logit of a cell position) is
\* -BiasMax or BiasMax and the size bias (the logit of a cell size) -BiasMax
MaxPatches == 1
RawMax == 18
BiasMax == 1

(***************************************************************************)
(* Python dict helpers.  A dict is a function whose domain is a set of     *)
(* strings.                                                                *)
(***************************************************************************)
\* d.pop(k, None): the dict without key k; no error when k is absent
Pop(d, k) == [x \in (DOMAIN d) \ {k} |-> d[x]]

\* d[k] = v on an existing or new key
SetItem(d, k, v) == [x \in (DOMAIN d) \cup {k} |-> IF x = k THEN v ELSE d[x]]

(***************************************************************************)
(* Parameter trees: the three sub-modules created in setup() are the       *)
(* top-level keys; the class head may still carry the stale keys           *)
(* "padding" and "padding_bias".                                           *)
(***************************************************************************)
StaleKeys == {"padding", "padding_bias"}

ClassHead(v, stale) == [k \in {"logit_scale"} \cup stale |-> v]

ParamTree(v, stale) ==
    [backbone |-> [w |-> v],
     class_head |-> ClassHead(v, stale),
     obj_box_head |-> [w |-> v]]

ParamTrees == {ParamTree(v, s) : v \in 1..MaxVal, s \in SUBSET StaleKeys}

\* what Embedder.load_backbone may return: any backbone subtree
BackboneTrees == {[w |-> v] : v \in 1..MaxVal}

(***************************************************************************)
(* Checkpoint store: what checkpoints.restore_checkpoint(path, None) can   *)
(* return.  "params" may be present or not; "optimizer" may be absent,     *)
(* present without "target", or present with a "target" tree.              *)
(***************************************************************************)
Optimizers == {[state |-> 0]} \cup {[state |-> 0, target |-> t] : t \in ParamTrees}

Checkpoints ==
    {[step |-> 0]}
    \cup {[step |-> 0, params |-> p] : p \in ParamTrees}
    \cup {[step |-> 0, optimizer |-> o] : o \in Optimizers}
    \cup {[step |-> 0, params |-> p, optimizer |-> o] : p \in ParamTrees, o \in Optimizers}

\* outcomes of a call
Ok(v) == [status |-> "ok", value |-> v]
KeyError(k) == [status |-> "KeyError", key |-> k]
NotCalled == [status |-> "none"]

VARIABLES
    checkpoint,             \* content of the checkpoint store at checkpoint_path
    lv_ret,                 \* outcome of the last load_variables call
    params_in,              \* the mapping the caller passed to the last load call
    params,                 \* the caller's mapping object after that call
    codebase,               \* init_config.get('codebase') of the last load call
    restored_train_state,   \* load's local after the call; NotCalled if never restored
    load_backbone_ret,      \* what load_backbone returned; NotCalled if it was not called
    load_ret                \* outcome of the last load call

loadVars == <<checkpoint, lv_ret, params_in, params, codebase, restored_train_state,
              load_backbone_ret, load_ret>>

\* Float tensors of the forward pass are represented by their shape (a
\* sequence of dimensions); text_queries and query_mask by their content.
VARIABLES
    embed_dim,              \* clip_model.CONFIGS[variant]['embed_dim'] of this module
    text_queries,           \* int32 tensor [b][q][l] the caller will pass
    feature_map,            \* shape of what image_embedder gives for the caller's images
    image_features,         \* shape passed to both heads by the last forward call
    query_embeddings,       \* shape of text_embedder's result in the last call
    query_mask,             \* tensor [b][q] computed by the last call
    outputs                 \* outcome of the last forward call

forwardVars == <<embed_dim, text_queries, feature_map, image_features,
                 query_embeddings, query_mask, outputs>>

\* box_predictor on values.  Pre-activations are integer-valued float32
\* numbers; results are float32 numbers <<m, e>> standing for m * 2^e.
VARIABLES
    box_bias,               \* the module attribute box_bias (the kind)
    raw_boxes,              \* [p][4]: what _box_head gives for the caller's features
    loc_bias,               \* what compute_box_bias puts in the x/y channels
    size_bias,              \* what compute_box_bias puts in the w/h channels
    pred_boxes              \* outcome of the last box_predictor call

boxVars == <<box_bias, raw_boxes, loc_bias, size_bias, pred_boxes>>

vars == <<loadVars, forwardVars, boxVars>>

(***************************************************************************)
(* The state of a group of operations none of which has been called.       *)
(***************************************************************************)
LoadIdle ==
    /\ checkpoint = [step |-> 0]
    /\ lv_ret = NotCalled
    /\ params_in = ParamTree(1, {})
    /\ params = params_in
    /\ codebase = "scenic"
    /\ restored_train_state = NotCalled
    /\ load_backbone_ret = NotCalled
    /\ load_ret = NotCalled

ForwardIdle ==
    /\ embed_dim = 1
    /\ text_queries = <<(<<(<<0>>)>>)>>
    /\ feature_map = <<1, 1, 1, 1>>
    /\ image_features = <<>>
    /\ query_embeddings = <<>>
    /\ query_mask = <<>>
    /\ outputs = NotCalled

BoxIdle ==
    /\ box_bias = "both"
    /\ raw_boxes = <<(<<0, 0, 0, 0>>)>>
    /\ loc_bias = 0
    /\ size_bias = 0
    /\ pred_boxes = NotCalled

(***************************************************************************)
(* load_variables, lines 38-45.                                            *)
(***************************************************************************)
load_variables_optimizer_first(restored) ==
    IF "optimizer" \in DOMAIN restored
    THEN IF "target" \in DOMAIN restored["optimizer"]
         THEN Ok([params |-> restored["optimizer"]["target"]])
         ELSE KeyError("target")
    ELSE IF "params" \in DOMAIN restored
    THEN Ok([params |-> restored["params"]])
    ELSE KeyError("params")

load_variables(restored) ==
    IF "params" \in DOMAIN restored
    THEN Ok([params |-> restored["params"]])
    ELSE IF "optimizer" \notin DOMAIN restored
    THEN KeyError("optimizer")
    ELSE IF "target" \notin DOMAIN restored["optimizer"]
    THEN KeyError("target")
    ELSE Ok([params |-> restored["optimizer"]["target"]])

(***************************************************************************)
(* load, lines 177-198.                                                    *)
(***************************************************************************)
\* lines 196-197: params['class_head'].pop('padding', None); ...pop('padding_bias', None)
RemoveUnused_padding_only(p) ==
    SetItem(p, "class_head", Pop(p["class_head"], "padding"))

RemoveUnused(p) ==
    SetItem(p, "class_head", Pop(Pop(p["class_head"], "padding"), "padding_bias"))

\* lines 189-193: which subtree of the restored train state becomes params
SelectRestored_params_first(restored) ==
    IF "params" \in DOMAIN restored
    THEN Ok(restored["params"])
    ELSE IF "optimizer" \notin DOMAIN restored
    THEN KeyError("optimizer")
    ELSE IF "target" \notin DOMAIN restored["optimizer"]
    THEN KeyError("target")
    ELSE Ok(restored["optimizer"]["target"])

SelectRestored_empty_on_missing(restored) ==
    IF "optimizer" \in DOMAIN restored
    THEN IF "target" \in DOMAIN restored["optimizer"]
         THEN Ok(restored["optimizer"]["target"])
         ELSE KeyError("target")
    ELSE IF "params" \in DOMAIN restored
    THEN Ok(restored["params"])
    ELSE Ok(ParamTree(1, {}))

SelectRestored(restored) ==
    IF "optimizer" \in DOMAIN restored
    THEN IF "target" \in DOMAIN restored["optimizer"]
         THEN Ok(restored["optimizer"]["target"])
         ELSE KeyError("target")
    ELSE IF "params" \in DOMAIN restored
    THEN Ok(restored["params"])
    ELSE KeyError("params")

\* lines 186-197: the default branch; the caller's mapping p is rebound, not used
LoadDefault_strip_optimizer_only(p, restored) ==
    LET sel == SelectRestored(restored)
    IN  IF sel.status # "ok" THEN sel
        ELSE IF "optimizer" \in DOMAIN restored
        THEN Ok(RemoveUnused(sel.value))
        ELSE sel

LoadDefault_keep_obj_box_head(p, restored) ==
    LET sel == SelectRestored(restored)
    IN  IF sel.status # "ok" THEN sel
        ELSE Ok(SetItem(RemoveUnused(sel.value), "obj_box_head", p["obj_box_head"]))

LoadDefault(p, restored) ==
    LET sel == SelectRestored(restored)
    IN  IF sel.status # "ok" THEN sel ELSE Ok(RemoveUnused(sel.value))

\* lines 181-184: the 'clip' branch; nb is what load_backbone returns
LoadClip_strip(p, nb) == RemoveUnused(SetItem(p, "backbone", nb))

LoadClip(p, nb) == SetItem(p, "backbone", nb)

\* restored_train_state after the default branch: the pops act on the
\* restored object itself, params being a reference into it
RestoredAfter(restored) ==
    LET sel == SelectRestored(restored)
    IN  IF sel.status # "ok" THEN restored
        ELSE IF "optimizer" \in DOMAIN restored
        THEN SetItem(restored, "optimizer",
                     SetItem(restored["optimizer"], "target", RemoveUnused(sel.value)))
        ELSE SetItem(restored, "params", RemoveUnused(sel.value))

(***************************************************************************)
(* __call__, lines 131-175.                                                *)
(***************************************************************************)
Tokens == {-TokMax, 0, TokMax}

ShapeError == [status |-> "ShapeError"]

\* shape of a rank-3 / rank-2 nested tensor
Shape3(t) == <<Len(t), Len(t[1]), Len(t[1][1])>>
Shape2(t) == <<Len(t), Len(t[1])>>

RECURSIVE Prod(_)
Prod(sh) == IF sh = <<>> THEN 1 ELSE Head(sh) * Prod(Tail(sh))

\* jnp.reshape on shapes: the element count must be kept
Reshape(sh, new) == IF Prod(sh) = Prod(new) THEN new ELSE <<>>

\* lines 155-156: b, h, w, d = feature_map.shape; reshape to (b, h * w, d)
Flatten_rows(fm) == Reshape(fm, <<fm[1] * fm[2], fm[3], fm[4]>>)

Flatten(fm) == Reshape(fm, <<fm[1], fm[2] * fm[3], fm[4]>>)

\* lines 116-129: text_embedder keeps the leading axes and replaces the
\* token axis by the embedding width
text_embedder(tq, e) == <<Len(tq), Len(tq[1]), e>>

\* line 161: (text_queries[..., 0] > 0).astype(jnp.float32)
QueryMask_last_token(tq) ==
    [i \in 1..Len(tq) |->
        [j \in 1..Len(tq[i]) |-> IF tq[i][j][Len(tq[i][j])] > 0 THEN 1 ELSE 0]]

QueryMask(tq) ==
    [i \in 1..Len(tq) |->
        [j \in 1..Len(tq[i]) |-> IF tq[i][j][1] > 0 THEN 1 ELSE 0]]

\* lines 80-99 and layers.ClassPredictor: class embeddings per patch and a
\* logit per (patch, query); the mask must match the queries
class_predictor(imf, qe, mask) ==
    IF Len(imf) # 3 \/ Len(qe) # 3 \/ imf[1] # qe[1] \/ Shape2(mask) # <<qe[1], qe[2]>>
    THEN ShapeError
    ELSE Ok([class_embeddings |-> <<imf[1], imf[2], qe[3]>>,
             pred_logits |-> <<imf[1], imf[2], qe[2]>>])

\* lines 53-55: PredictorMLP(out_dim=4) maps the last axis to 4 outputs
BoxOutDim == 4
box_head(imf) == <<imf[1], imf[2], BoxOutDim>>

\* utils.compute_box_bias: one bias row of 4 per grid cell
compute_box_bias_shape(fm) == <<fm[2] * fm[3], BoxOutDim>>

\* lines 72-78 on shapes: the bias is broadcast over the batch axis and the
\* sigmoid is element-wise
box_predictor_shape(imf, fm) ==
    LET raw == box_head(imf)
        bias == compute_box_bias_shape(fm)
    IN  IF Len(imf) # 3 \/ (bias[1] # raw[2] /\ bias[1] # 1 /\ raw[2] # 1)
        THEN ShapeError
        ELSE Ok([pred_boxes |-> <<raw[1], IF raw[2] = 1 THEN bias[1] ELSE raw[2], raw[3]>>])

\* dict.update
Update(d, u) == [k \in (DOMAIN d) \cup (DOMAIN u) |-> IF k \in DOMAIN u THEN u[k] ELSE d[k]]

\* lines 163-175
ForwardOutputs(fm, imf, qe, mask) ==
    LET base == [feature_map |-> fm, query_embeddings |-> qe]
        cls == class_predictor(imf, qe, mask)
        box == box_predictor_shape(imf, fm)
    IN  IF cls.status # "ok" THEN cls
        ELSE IF box.status # "ok" THEN box
        ELSE Ok(Update(Update(base, cls.value), box.value))

ZeroQueries(b, q, l) == [i \in 1..b |-> [j \in 1..q |-> [k \in 1..l |-> 0]]]

ForwardInit ==
    /\ embed_dim \in 1..MaxD
    /\ text_queries = ZeroQueries(1, 1, 1)
    /\ feature_map = <<1, 1, 1, 1>>
    /\ image_features = <<>>
    /\ query_embeddings = <<>>
    /\ query_mask = <<>>
    /\ outputs = NotCalled
    /\ LoadIdle
    /\ BoxIdle

\* the caller turns to other images, whose feature map is [b, h, w, d]
NewImages ==
    \E h \in 1..MaxGrid, w \in 1..MaxGrid, d \in 1..MaxD :
        /\ feature_map' = <<feature_map[1], h, w, d>>
        /\ image_features' = <<>>
        /\ query_embeddings' = <<>>
        /\ query_mask' = <<>>
        /\ outputs' = NotCalled
        /\ UNCHANGED <<embed_dim, text_queries, loadVars, boxVars>>

\* the caller starts a batch of b images with q queries of l tokens each,
\* all padding
NewQueries ==
    \E b \in 1..MaxTokens, q \in 1..MaxTokens, l \in 1..MaxTokens :
        /\ b * q * l <= MaxTokens
        /\ text_queries' = ZeroQueries(b, q, l)
        /\ feature_map' = [feature_map EXCEPT ![1] = b]
        /\ image_features' = <<>>
        /\ query_embeddings' = <<>>
        /\ query_mask' = <<>>
        /\ outputs' = NotCalled
        /\ UNCHANGED <<embed_dim, loadVars, boxVars>>

\* the caller writes one token of a query
SetToken ==
    \E i \in 1..Len(text_queries) :
    \E j \in 1..Len(text_queries[i]) :
    \E k \in 1..Len(text_queries[i][j]) :
    \E t \in Tokens :
        /\ text_queries[i][j][k] # t
        /\ text_queries' = [text_queries EXCEPT ![i][j][k] = t]
        /\ image_features' = <<>>
        /\ query_embeddings' = <<>>
        /\ query_mask' = <<>>
        /\ outputs' = NotCalled
        /\ UNCHANGED <<embed_dim, feature_map, loadVars, boxVars>>

Forward ==
    /\ image_features' = Flatten(feature_map)
    /\ query_embeddings' = text_embedder(text_queries, embed_dim)
    /\ query_mask' = QueryMask(text_queries)
    /\ outputs' = ForwardOutputs(feature_map, image_features', query_embeddings', query_mask')
    /\ UNCHANGED <<embed_dim, text_queries, feature_map, loadVars, boxVars>>

ForwardNext == NewImages \/ NewQueries \/ SetToken \/ Forward

(***************************************************************************)
(* box_predictor, lines 57-78, in float32 arithmetic.                      *)
(*                                                                         *)
(* A positive float32 number is <<m, e>> with 2^23 <= m < 2^24, standing   *)
(* for m * 2^e; all roundings are to nearest, ties to even.                *)
(***************************************************************************)
MantBits == 24
Hidden == 2^(MantBits - 1)

F32One == <<Hidden, -(MantBits - 1)>>

\* n / 2^k rounded to nearest, ties to even (k >= 1)
RoundShift(n, k) ==
    IF k > MantBits + 1 THEN 0
    ELSE LET q == n \div 2^k
             r == n % 2^k
             half == 2^(k - 1)
         IN  IF r > half \/ (r = half /\ q % 2 = 1) THEN q + 1 ELSE q

\* bring a mantissa below 2^25 back into 24 bits
Normalize(m, e) ==
    IF m >= 2 * Hidden
    THEN IF RoundShift(m, 1) < 2 * Hidden
         THEN <<RoundShift(m, 1), e + 1>>
         ELSE <<Hidden, e + 2>>
    ELSE <<m, e>>

\* float32 exp(n) for the integers -ExpTableMax..ExpTableMax
ExpTableMax == 24
ExpTable ==
    <<
       <<10881084, -58>>, <<14788927, -57>>, <<10050118, -55>>, <<13659527, -54>>,
       <<9282611, -52>>, <<12616376, -51>>, <<8573716, -49>>, <<11652889, -48>>,
       <<15837918, -47>>, <<10762981, -45>>, <<14628408, -44>>, <<9941034, -42>>,
       <<13511266, -41>>, <<9181857, -39>>, <<12479438, -38>>, <<8480657, -36>>,
       <<11526408, -35>>, <<15666013, -34>>, <<10646160, -32>>, <<14469631, -31>>,
       <<9833134, -29>>, <<13364614, -28>>, <<9082197, -26>>, <<12343986, -25>>,
       <<8388608, -23>>, <<11401300, -22>>, <<15495974, -21>>, <<10530606, -19>>,
       <<14312577, -18>>, <<9726405, -16>>, <<13219555, -15>>, <<8983619, -13>>,
       <<12210004, -12>>, <<16595116, -11>>, <<11277550, -9>>, <<15327780, -8>>,
       <<10416307, -6>>, <<14157229, -5>>, <<9620834, -3>>, <<13076069, -2>>,
       <<8886111, 0>>, <<12077476, 1>>, <<16414992, 2>>, <<11155144, 4>>,
       <<15161412, 5>>, <<10303248, 7>>, <<14003566, 8>>, <<9516410, 10>>,
       <<12934142, 11>>
    >>

Exp32(n) == ExpTable[n + ExpTableMax + 1]

\* float32 1.0 + a
Add1(a) ==
    LET m == a[1]
        e == a[2]
        s == e + (MantBits - 1)
    IN  IF s >= 0
        THEN IF s <= MantBits - 1 THEN Normalize(m + 2^((MantBits - 1) - s), e)
             ELSE IF s = MantBits THEN Normalize(m + (m % 2), e)
             ELSE a
        ELSE Normalize(Hidden + RoundShift(m, -s), -(MantBits - 1))

\* long division: MantBits quotient bits of rem * 2^MantBits / m
RECURSIVE DivBits(_, _, _, _)
DivBits(rem, m, q, n) ==
    IF n = 0 THEN <<q, rem>>
    ELSE IF 2 * rem >= m
    THEN DivBits(2 * rem - m, m, 2 * q + 1, n - 1)
    ELSE DivBits(2 * rem, m, 2 * q, n - 1)

\* float32 1.0 / s
Recip(s) ==
    LET m == s[1]
        e == s[2]
    IN  IF m = Hidden THEN <<Hidden, -e - 2 * (MantBits - 1)>>
        ELSE LET qr == DivBits(Hidden, m, 0, MantBits)
                 q == qr[1]
                 rem == qr[2]
                 up == 2 * rem > m \/ (2 * rem = m /\ q % 2 = 1)
             IN  Normalize(IF up THEN q + 1 ELSE q, -e - (2 * MantBits - 1))

\* nn.sigmoid, line 77: 1 / (1 + exp(-x))
Sigmoid_no_reciprocal(x) == Add1(Exp32(-x))

Sigmoid(x) == Recip(Add1(Exp32(-x)))

\* comparison of positive float32 numbers
F32Less(a, b) == a[2] < b[2] \/ (a[2] = b[2] /\ a[1] < b[1])

BoxBiasKinds == {"location", "size", "both"}

\* utils.compute_box_bias, line 76: the bias row of a patch; 'location'
\* fills the x/y channels, 'size' the w/h channels, 'both' all four
compute_box_bias(kind, loc, size) ==
    [c \in 1..BoxOutDim |->
        IF c <= 2
        THEN IF kind \in {"location", "both"} THEN loc ELSE 0
        ELSE IF kind \in {"size", "both"} THEN size ELSE 0]

\* lines 72-78
box_predictor(raw, kind, loc, size) ==
    LET bias == compute_box_bias(kind, loc, size)
    IN  Ok([pred_boxes |->
               [i \in 1..Len(raw) |->
                   [c \in 1..BoxOutDim |-> Sigmoid(raw[i][c] + bias[c])]]])

RawVals == {-RawMax, 0, RawMax}
LocBiasVals == {-BiasMax, BiasMax}
SizeBiasVals == {-BiasMax}

ZeroRaw(p) == [i \in 1..p |-> [c \in 1..BoxOutDim |-> 0]]

BoxInit ==
    /\ box_bias \in BoxBiasKinds
    /\ raw_boxes = ZeroRaw(1)
    /\ loc_bias \in LocBiasVals
    /\ size_bias \in SizeBiasVals
    /\ pred_boxes = NotCalled
    /\ LoadIdle
    /\ ForwardIdle

\* the caller turns to another image: p patches, other bias values
NewFeatures ==
    \E p \in 1..MaxPatches, loc \in LocBiasVals, size \in SizeBiasVals :
        /\ raw_boxes' = ZeroRaw(p)
        /\ loc_bias' = loc
        /\ size_bias' = size
        /\ pred_boxes' = NotCalled
        /\ UNCHANGED <<box_bias, loadVars, forwardVars>>

\* the features of one patch change, and with them one raw regression output
SetRaw ==
    \E i \in 1..Len(raw_boxes), c \in 1..BoxOutDim, v \in RawVals :
        /\ raw_boxes[i][c] # v
        /\ raw_boxes' = [raw_boxes EXCEPT ![i][c] = v]
        /\ pred_boxes' = NotCalled
        /\ UNCHANGED <<box_bias, loc_bias, size_bias, loadVars, forwardVars>>

BoxPredictor ==
    /\ pred_boxes' = box_predictor(raw_boxes, box_bias, loc_bias, size_bias)
    /\ UNCHANGED <<box_bias, raw_boxes, loc_bias, size_bias, loadVars, forwardVars>>

BoxNext == NewFeatures \/ SetRaw \/ BoxPredictor

SpecBox == BoxInit /\ [][BoxNext]_vars

SpecForward == ForwardInit /\ [][ForwardNext]_vars

Codebases == {"clip", "scenic"}

LoadInit ==
    /\ checkpoint \in Checkpoints
    /\ lv_ret = NotCalled
    /\ params_in \in ParamTrees
    /\ params = params_in
    /\ codebase = "scenic"
    /\ restored_train_state = NotCalled
    /\ load_backbone_ret = NotCalled
    /\ load_ret = NotCalled
    /\ ForwardIdle
    /\ BoxIdle

\* the training job (or the user) replaces the checkpoint at checkpoint_path
SaveCheckpoint ==
    /\ \E c \in Checkpoints : checkpoint' = c
    /\ lv_ret' = NotCalled
    /\ load_ret' = NotCalled
    /\ restored_train_state' = NotCalled
    /\ load_backbone_ret' = NotCalled
    /\ UNCHANGED <<params_in, params, codebase, forwardVars, boxVars>>

LoadVariables ==
    /\ lv_ret' = load_variables(checkpoint)
    /\ UNCHANGED <<checkpoint, params_in, params, codebase, restored_train_state,
                   load_backbone_ret, load_ret, forwardVars, boxVars>>

Load ==
    \E p \in ParamTrees, cb \in Codebases :
        /\ params_in' = p
        /\ codebase' = cb
        /\ IF cb = "clip"
           THEN \E nb \in BackboneTrees :
                /\ load_backbone_ret' = Ok(nb)
                /\ params' = LoadClip(p, nb)
                /\ load_ret' = Ok(params')
                /\ restored_train_state' = NotCalled
           ELSE /\ load_backbone_ret' = NotCalled
                /\ params' = p
                /\ load_ret' = LoadDefault(p, checkpoint)
                /\ restored_train_state' = Ok(RestoredAfter(checkpoint))
        /\ UNCHANGED <<checkpoint, lv_ret, forwardVars, boxVars>>

LoadNext == SaveCheckpoint \/ LoadVariables \/ Load

SpecLoad == LoadInit /\ [][LoadNext]_vars

(***************************************************************************)
(* Properties of load_variables and load (checked under SpecLoad).         *)
(***************************************************************************)
HasParams == "params" \in DOMAIN checkpoint
HasOptimizer == "optimizer" \in DOMAIN checkpoint
HasTarget == HasOptimizer /\ "target" \in DOMAIN checkpoint["optimizer"]

LoadVariablesDone == lv_ret.status # "none"
DefaultLoadDone == load_ret.status # "none" /\ codebase # "clip"
ClipLoadDone == load_ret.status # "none" /\ codebase = "clip"

\* t with "padding" and "padding_bias" gone from its class_head, all else as in t
IsStrippedOf(r, t) ==
    /\ DOMAIN r = DOMAIN t
    /\ \A k \in (DOMAIN t) \ {"class_head"} : r[k] = t[k]
    /\ DOMAIN r["class_head"] = (DOMAIN t["class_head"]) \ StaleKeys
    /\ \A k \in DOMAIN r["class_head"] : r["class_head"][k] = t["class_head"][k]

\* C1: load_variables returns {'params': X} with X the checkpoint's 'params'
\* whenever that key exists (even next to 'optimizer'), and X the content of
\* optimizer.target only when 'params' is absent; X is returned unchanged.
C1_LoadVariablesParamsFirst ==
    LoadVariablesDone =>
        /\ HasParams => lv_ret = Ok([params |-> checkpoint["params"]])
        /\ (~HasParams /\ HasTarget) =>
               lv_ret = Ok([params |-> checkpoint["optimizer"]["target"]])
        /\ lv_ret.status = "ok" => DOMAIN lv_ret.value = {"params"}

C1_Witness ==
    /\ LoadVariablesDone
    /\ HasParams /\ HasTarget
    /\ checkpoint["params"] # checkpoint["optimizer"]["target"]
    /\ lv_ret.status = "ok"
    /\ lv_ret.value["params"] = checkpoint["params"]

\* C3: default-mode load of a checkpoint holding only optimizer.target
\* succeeds and returns the target with 'padding' and 'padding_bias' removed
\* from class_head, every other key and value identical.
C3_OptimizerOnlyStripped ==
    (DefaultLoadDone /\ HasTarget /\ ~HasParams) =>
        /\ load_ret.status = "ok"
        /\ IsStrippedOf(load_ret.value, checkpoint["optimizer"]["target"])

C3_Witness ==
    /\ DefaultLoadDone /\ HasTarget /\ ~HasParams
    /\ StaleKeys \subseteq DOMAIN checkpoint["optimizer"]["target"]["class_head"]
    /\ load_ret.status = "ok"
    /\ DOMAIN load_ret.value["class_head"] = {"logit_scale"}

\* C4 as claimed: default-mode load of a checkpoint holding only 'params'
\* returns that content unchanged, stale keys included.
C4_ParamsOnlyUnchanged ==
    (DefaultLoadDone /\ HasParams /\ ~HasOptimizer) =>
        load_ret = Ok(checkpoint["params"])

\* C4 amended: default-mode load of a checkpoint holding only 'params'
\* returns that content with 'padding' and 'padding_bias' removed from
\* class_head, exactly as on the optimizer.target path.
C4_ParamsOnlyStripped ==
    (DefaultLoadDone /\ HasParams /\ ~HasOptimizer) =>
        /\ load_ret.status = "ok"
        /\ IsStrippedOf(load_ret.value, checkpoint["params"])

C4_Witness ==
    /\ DefaultLoadDone /\ HasParams /\ ~HasOptimizer
    /\ "padding" \in DOMAIN checkpoint["params"]["class_head"]
    /\ load_ret.status = "ok"
    /\ "padding" \notin DOMAIN load_ret.value["class_head"]

\* C5: in 'clip' mode load replaces only 'backbone', by what load_backbone
\* returned; all other subtrees are as supplied, stale keys are kept, and
\* no checkpoint is restored.
C5_ClipReplacesOnlyBackbone ==
    ClipLoadDone =>
        /\ load_ret.status = "ok"
        /\ load_backbone_ret.status = "ok"
        /\ DOMAIN load_ret.value = DOMAIN params_in
        /\ load_ret.value["backbone"] = load_backbone_ret.value
        /\ \A k \in (DOMAIN params_in) \ {"backbone"} : load_ret.value[k] = params_in[k]
        /\ restored_train_state = NotCalled

C5_Witness ==
    /\ ClipLoadDone
    /\ StaleKeys \subseteq DOMAIN params_in["class_head"]
    /\ load_backbone_ret.status = "ok"
    /\ load_backbone_ret.value # params_in["backbone"]
    /\ load_ret.value["backbone"] = load_backbone_ret.value
    /\ load_ret.value["class_head"] = params_in["class_head"]

\* C6: default-mode load of a checkpoint with neither 'optimizer' nor
\* 'params' ends in an error and returns no mapping.
C6_MissingBothIsFatal ==
    (DefaultLoadDone /\ ~HasParams /\ ~HasOptimizer) => load_ret.status = "KeyError"

C6_Witness ==
    /\ DefaultLoadDone /\ ~HasParams /\ ~HasOptimizer
    /\ load_ret = KeyError("params")

\* C7: in default mode the outcome of load depends on the checkpoint only:
\* any other caller-supplied mapping gives the same outcome, and the
\* caller's mapping object is left as it was supplied.
C7_DefaultIgnoresCallerParams ==
    DefaultLoadDone =>
        /\ \A p2 \in ParamTrees : load_ret = LoadDefault(p2, checkpoint)
        /\ params = params_in

C7_Witness ==
    /\ DefaultLoadDone
    /\ load_ret.status = "ok"
    /\ load_ret.value["obj_box_head"] # params_in["obj_box_head"]
    /\ params = params_in

BothLoaded == DefaultLoadDone /\ load_ret.status = "ok" /\ lv_ret.status = "ok"

\* load_variables and load both took their parameters from subtree t
BothFrom(t) == lv_ret.value["params"] = t /\ IsStrippedOf(load_ret.value, t)

\* C10 as claimed: whenever both succeed, load_variables and default-mode
\* load take the parameters from the same subtree of the checkpoint, also
\* when the checkpoint has both keys.
C10_SameLineageAlways ==
    BothLoaded =>
        \/ HasParams /\ BothFrom(checkpoint["params"])
        \/ HasTarget /\ BothFrom(checkpoint["optimizer"]["target"])

\* C10 amended: they take the parameters from the same subtree when the
\* checkpoint has only one of 'params' and 'optimizer'; when it has both,
\* load_variables takes 'params' and load takes optimizer.target.
C10_SameLineageUnlessBoth ==
    BothLoaded =>
        IF HasParams /\ HasOptimizer
        THEN /\ HasTarget
             /\ lv_ret.value["params"] = checkpoint["params"]
             /\ IsStrippedOf(load_ret.value, checkpoint["optimizer"]["target"])
        ELSE \/ HasParams /\ BothFrom(checkpoint["params"])
             \/ HasTarget /\ BothFrom(checkpoint["optimizer"]["target"])

C10_Witness ==
    /\ BothLoaded
    /\ HasParams /\ HasTarget
    /\ checkpoint["params"]["backbone"] # checkpoint["optimizer"]["target"]["backbone"]
    /\ lv_ret.value["params"]["backbone"] = checkpoint["params"]["backbone"]
    /\ load_ret.value["backbone"] = checkpoint["optimizer"]["target"]["backbone"]

(***************************************************************************)
(* Properties of the forward pass (checked under SpecForward).             *)
(***************************************************************************)
ForwardDone == outputs.status # "none"

\* C2 as claimed: the mask is 0 for a query whose first token is 0 and 1
\* for a query whose first token is any nonzero integer.
C2_MaskOneIffFirstNonzero ==
    ForwardDone =>
        \A i \in 1..Len(text_queries) : \A j \in 1..Len(text_queries[i]) :
            query_mask[i][j] = IF text_queries[i][j][1] = 0 THEN 0 ELSE 1

\* C2 amended: the mask is 1 for a query whose first token is positive and
\* 0 for a query whose first token is 0 or negative; no later token has
\* any influence.
C2_MaskOneIffFirstPositive ==
    ForwardDone =>
        /\ Len(query_mask) = Len(text_queries)
        /\ \A i \in 1..Len(text_queries) :
            /\ Len(query_mask[i]) = Len(text_queries[i])
            /\ \A j \in 1..Len(text_queries[i]) :
                query_mask[i][j] = IF text_queries[i][j][1] > 0 THEN 1 ELSE 0

C2_Witness ==
    /\ ForwardDone
    /\ Shape3(text_queries) = <<1, 2, 2>>
    /\ text_queries[1][1] = <<0, TokMax>>
    /\ text_queries[1][2] = <<TokMax, -TokMax>>
    /\ query_mask = <<(<<0, 1>>)>>

\* C8: forward returns feature_map, query_embeddings, pred_logits and
\* pred_boxes, with pred_logits of shape [b, h*w, q] and pred_boxes of shape
\* [b, h*w, 4]; both heads get the feature map flattened to [b, h*w, d] and
\* the class predictor gets a mask of shape [b, q], as query_embeddings.
C8_ForwardShapes ==
    ForwardDone =>
        LET b == feature_map[1]
            h == feature_map[2]
            w == feature_map[3]
            d == feature_map[4]
            q == Len(text_queries[1])
        IN  /\ outputs.status = "ok"
            /\ {"feature_map", "query_embeddings", "pred_logits", "pred_boxes"}
                   \subseteq DOMAIN outputs.value
            /\ outputs.value["feature_map"] = feature_map
            /\ outputs.value["query_embeddings"] = query_embeddings
            /\ outputs.value["pred_logits"] = <<b, h * w, q>>
            /\ outputs.value["pred_boxes"] = <<b, h * w, 4>>
            /\ image_features = <<b, h * w, d>>
            /\ Shape2(query_mask) = <<b, q>>
            /\ SubSeq(query_embeddings, 1, 2) = <<b, q>>

C8_Witness ==
    /\ ForwardDone
    /\ feature_map = <<1, 2, 2, 2>>
    /\ Shape3(text_queries) = <<1, 2, 2>>
    /\ outputs.status = "ok"
    /\ outputs.value["pred_logits"] = <<1, 4, 2>>
    /\ outputs.value["pred_boxes"] = <<1, 4, 4>>

(***************************************************************************)
(* Properties of box_predictor (checked under SpecBox).                    *)
(***************************************************************************)
BoxDone == pred_boxes.status = "ok"

BoxValues ==
    {pred_boxes.value["pred_boxes"][i][c] : i \in 1..Len(raw_boxes), c \in 1..BoxOutDim}

\* C9 as claimed: for every valid kind and finite features, every value of
\* pred_boxes lies strictly between 0 and 1.
C9_BoxesStrictlyInside ==
    BoxDone => \A v \in BoxValues : v[1] > 0 /\ F32Less(v, F32One)

\* C9 amended: every value of pred_boxes lies in the closed interval
\* [0, 1]; the float32 sigmoid returns exactly 1.0 for a large raw output.
C9_BoxesInClosedUnitInterval ==
    BoxDone => \A v \in BoxValues : v[1] >= 0 /\ (F32Less(v, F32One) \/ v = F32One)

C9_Witness ==
    /\ BoxDone
    /\ box_bias = "location"
    /\ raw_boxes[1][1] = RawMax /\ loc_bias = -BiasMax
    /\ pred_boxes.value["pred_boxes"][1][1] = F32One
    /\ raw_boxes[1][3] = 0
    /\ pred_boxes.value["pred_boxes"][1][3] = <<Hidden, -MantBits>>

====
